---- MODULE Spec2Model ----
(***************************************************************************)
(* Model of the indexed calendar of Timothe-rs and of its reconciliation   *)
(* algorithm, Calendar::update (src/src/calendar/schedule.rs).             *)
(*                                                                         *)
(* A Calendar holds two indices over its events: tree, a BTreeMap from     *)
(* the start timestamp to the event, and uid_index, a HashMap from the uid *)
(* to the event.  update reconciles a freshly fetched list of events with  *)
(* the stored ones and returns the list of changes (Created, Updated,      *)
(* Removed).                                                               *)
(***************************************************************************)
EXTENDS Integers, Sequences, FiniteSets, TLC

(***************************************************************************)
(* Bounds of the model.                                                    *)
(***************************************************************************)
\* timestamps are 0..MaxTime (seconds)
MaxTime == 1
\* longest list of events handed to one update
MaxEvents == 2

\* DateTime::<Utc>::MAX_UTC, the sentinel used when the calendar is empty;
\* larger than every timestamp an event can carry
MAX_UTC == 2147483647

Times == 0..MaxTime
Uids == {"000", "002"}
Descriptions == {"", "this is updated"}
\* values of CalendarItem::time_amount of a well-formed configuration
TimeAmounts == {"1s", "2s"}

(***************************************************************************)
(* Event (src/src/calendar/mod.rs): equality is structural, on all fields. *)
(***************************************************************************)
Event(uid, start, description) ==
    [summary |-> "test event1", start |-> start, end |-> start + 1,
     location |-> "", description |-> description, uid |-> uid]

Events == {Event(u, s, d) : u \in Uids, s \in Times, d \in Descriptions}

\* Vec<Event> of at most MaxEvents events
EventVecs == UNION {[1..n -> Events] : n \in 0..MaxEvents}

(***************************************************************************)
(* UpdateResult (src/src/calendar/mod.rs).                                 *)
(***************************************************************************)
Created(e) == [kind |-> "Created", event |-> e]
Updated(o, n) == [kind |-> "Updated", old |-> o, new |-> n]
Removed(e) == [kind |-> "Removed", event |-> e]

(***************************************************************************)
(* Maps (BTreeMap, HashMap) are functions; insert overwrites, remove of an *)
(* absent key does nothing.                                                *)
(***************************************************************************)
EmptyMap == [k \in {} |-> k]
insert_nothing(m, k, v) == m
insert(m, k, v) == [x \in (DOMAIN m) \cup {k} |-> IF x = k THEN v ELSE m[x]]
remove(m, k) == [x \in (DOMAIN m) \ {k} |-> m[x]]

Min(S) == CHOOSE x \in S : \A y \in S : x <= y
Max(S) == CHOOSE x \in S : \A y \in S : y <= x

\* the keys of a BTreeMap in iteration (ascending) order
RECURSIVE ascending(_)
ascending(S) == IF S = {} THEN <<>>
                ELSE <<Min(S)>> \o ascending(S \ {Min(S)})

\* variant of values: the values in descending key order
values_descending(m) ==
    LET ks == ascending(DOMAIN m)
    IN  [i \in DOMAIN ks |-> m[ks[Len(ks) + 1 - i]]]

\* BTreeMap::values(): the values in ascending key order
values(m) == LET ks == ascending(DOMAIN m) IN [i \in DOMAIN ks |-> m[ks[i]]]

\* Calendar::new
new == [tree |-> EmptyMap, uid_index |-> EmptyMap]

(***************************************************************************)
(* The pieces of Calendar::update (src/src/calendar/schedule.rs:80-182).   *)
(***************************************************************************)

\* BTreeMap::from_iter over (f.start, f): of the events that share a start,
\* the one latest in the list is kept
from_iter(events) ==
    [s \in {events[i].start : i \in DOMAIN events} |->
        events[Max({i \in DOMAIN events : events[i].start = s})]]

\* variant of existing_end: the empty tree yields the default timestamp (the
\* epoch) instead of MAX_UTC
existing_end_epoch(t) == IF DOMAIN t = {} THEN 0 ELSE Min(DOMAIN t)

\* self.tree.iter().next().map_or(&MAX_UTC, |f| f.0): the first (smallest)
\* key of the tree, MAX_UTC when the tree is empty
existing_end(t) == IF DOMAIN t = {} THEN MAX_UTC ELSE Min(DOMAIN t)

\* variant of differs: the two handles are compared, not the events, and
\* the handle of a freshly fetched event is never the stored one
differs_by_handle(existing, n) == TRUE

\* `existing != new`, the derived structural comparison of two events
differs(existing, n) == existing # n

\* variant of replace_in_tree: the entry under the old start is kept
replace_in_tree_keeping(t, old, n) == insert(t, n.start, n)

\* self.tree.insert(new.start, new); self.tree.remove(&old.start);
replace_in_tree(t, old, n) == remove(insert(t, n.start, n), old.start)

\* variants of emits_created: `<=` for `<`, and no test at all
emits_created_le(n, frontier) == n.start <= frontier
emits_created_always(n, frontier) == TRUE

\* `new.start < existing_end`, the test that guards the push of Created
emits_created(n, frontier) == n.start < frontier

\* humantime::parse_duration(&config.time_amount), in seconds
parse_duration(s) ==
    CASE s = "1s" -> [ok |-> TRUE, secs |-> 1]
      [] s = "2s" -> [ok |-> TRUE, secs |-> 2]
      [] s = "1m" -> [ok |-> TRUE, secs |-> 60]
      [] OTHER    -> [ok |-> FALSE, secs |-> 0]

\* variant of range: the scan has no upper limit (from..)
range_unbounded(t, from, to) ==
    LET ks == ascending({k \in DOMAIN t : from <= k})
    IN  [i \in DOMAIN ks |-> t[ks[i]]]

\* self.tree.range(from..to).map(|f| f.1.clone()).collect(): the events
\* stored under a key in [from, to), in ascending key order
range(t, from, to) ==
    LET ks == ascending({k \in DOMAIN t : from <= k /\ k < to})
    IN  [i \in DOMAIN ks |-> t[ks[i]]]

\* Calendar::get_range: self.tree.range(date..date.add(duration)), cloned
\* into a Vec
get_range(self, date, duration) == range(self.tree, date, date + duration)

\* variant of is_deleted: the negation is missing
is_deleted_inverted(event, tree_index) == event.start \in DOMAIN tree_index

\* variant of is_deleted: an event is deleted when no fetched event has its
\* uid
is_deleted_by_uid(event, tree_index) ==
    event.uid \notin {tree_index[k].uid : k \in DOMAIN tree_index}

\* `!tree_index.contains_key(&event.start)`
is_deleted(event, tree_index) == event.start \notin DOMAIN tree_index

\* What one iteration of the first loop leaves behind, noted for the
\* record: the event it handled, whether its uid was known, the change it
\* pushed, whether each index holds the event under its key at the end of
\* the iteration, and whether an index still holds the replaced version.
step(n, known, pushed, t, u, old) ==
    [new |-> n, known |-> known, pushed |-> pushed,
     in_tree |-> n.start \in DOMAIN t /\ t[n.start] = n,
     in_uid_index |-> n.uid \in DOMAIN u /\ u[n.uid] = n,
     old_held |-> \/ \E k \in DOMAIN t : t[k] = old
                  \/ \E k \in DOMAIN u : u[k] = old]

\* One iteration of `for new in tree_index.values()`.  st carries the two
\* indices, the updates pushed so far and the record of the iterations.
reconcile_one(st, n, frontier) ==
    IF n.uid \in DOMAIN st.uid_index
    THEN LET existing == st.uid_index[n.uid] IN
         IF differs(existing, n)
         THEN LET t == replace_in_tree(st.tree, existing, n)
                  u == [st.uid_index EXCEPT ![n.uid] = n]
                  p == <<Updated(existing, n)>>
              IN  [tree |-> t, uid_index |-> u,
                   updates |-> st.updates \o p,
                   steps |-> Append(st.steps, step(n, TRUE, p, t, u, existing))]
         ELSE [st EXCEPT !.steps = Append(@,
                  step(n, TRUE, <<>>, st.tree, st.uid_index, n))]
    ELSE LET u == insert(st.uid_index, n.uid, n)
             t == insert(st.tree, n.start, n)
             p == IF emits_created(n, frontier) THEN <<Created(n)>> ELSE <<>>
         IN  [tree |-> t, uid_index |-> u,
              updates |-> st.updates \o p,
              steps |-> Append(st.steps, step(n, FALSE, p, t, u, n))]

\* the loop `for new in tree_index.values()`, from the i-th value on
RECURSIVE reconcile(_, _, _, _)
reconcile(st, vs, i, frontier) ==
    IF i > Len(vs) THEN st
    ELSE reconcile(reconcile_one(st, vs[i], frontier), vs, i + 1, frontier)

\* One iteration of `for event in range`.  Once the `?` has returned an
\* error no later iteration runs.
remove_one(st, event, tree_index) ==
    IF st.error # "" THEN st
    ELSE IF is_deleted(event, tree_index)
    THEN LET t == remove(st.tree, event.start) IN
         IF event.uid \in DOMAIN st.uid_index
         THEN [tree |-> t,
               uid_index |-> remove(st.uid_index, event.uid),
               updates |-> Append(st.updates, Removed(st.uid_index[event.uid])),
               error |-> ""]
         ELSE [st EXCEPT !.tree = t,
                         !.error = "should happen. the key wasn't in the hashmap"]
    ELSE st

\* the loop `for event in range`, from the i-th event on
RECURSIVE remove_deleted(_, _, _, _)
remove_deleted(st, rg, i, tree_index) ==
    IF i > Len(rg) THEN st
    ELSE remove_deleted(remove_one(st, rg[i], tree_index), rg, i + 1, tree_index)

\* variant of after_parse_error: the calendar is as it was before the call
after_parse_error_restored(self, first) == self

\* the `?` on parse_duration returns after the first loop has worked on
\* self: the calendar is left as that loop made it
after_parse_error(self, first) == first

\* Calendar::update.  The result carries the calendar after the call
\* (tree, uid_index), the returned value (ok, updates or error) and the
\* intermediate values of the run: tree_index, frontier (existing_end),
\* steps (the record of the first loop), first (the indices after the
\* first loop), scanned (range).
update(self, events, fetch_time, config) ==
    LET tree_index == from_iter(events)
        frontier == existing_end(self.tree)
        first == reconcile([tree |-> self.tree, uid_index |-> self.uid_index,
                            updates |-> <<>>, steps |-> <<>>],
                           values(tree_index), 1, frontier)
        parsed == parse_duration(config.time_amount)
        end_slice == fetch_time + parsed.secs
        scanned == range(first.tree, fetch_time, end_slice)
        second == remove_deleted([tree |-> first.tree,
                                  uid_index |-> first.uid_index,
                                  updates |-> first.updates, error |-> ""],
                                 scanned, 1, tree_index)
        common == [tree_index |-> tree_index, frontier |-> frontier,
                   steps |-> first.steps,
                   first |-> [tree |-> first.tree, uid_index |-> first.uid_index]]
    IN  IF ~parsed.ok
        THEN [tree |-> after_parse_error(self, first).tree,
              uid_index |-> after_parse_error(self, first).uid_index,
              ok |-> FALSE, updates |-> <<>>,
              error |-> "invalid format in the time_amount duration",
              scanned |-> <<>>] @@ common
        ELSE IF second.error # ""
        THEN [tree |-> second.tree, uid_index |-> second.uid_index,
              ok |-> FALSE, updates |-> <<>>, error |-> second.error,
              scanned |-> scanned] @@ common
        ELSE [tree |-> second.tree, uid_index |-> second.uid_index,
              ok |-> TRUE, updates |-> second.updates, error |-> "",
              scanned |-> scanned] @@ common

(***************************************************************************)
(* Persistence of a Calendar (impl Serialize, impl Deserialize) and of the *)
(* Store (src/src/calendar/schedule.rs:185-253).  The bytes postcard       *)
(* produces are modelled by what they encode: for each calendar name the   *)
(* sequence of its events, in the order they were handed to the            *)
(* serializer.                                                             *)
(***************************************************************************)

\* the orders in which the elements of a set can be iterated
Orders(S) ==
    {f \in [1..Cardinality(S) -> S] :
        \A i, j \in 1..Cardinality(S) : i # j => f[i] # f[j]}

\* impl Serialize for Calendar: the values of uid_index, collected in the
\* iteration order of the HashMap, which is not specified; the possible
\* sequences of elements
serialize(self) == Orders({self.uid_index[k] : k \in DOMAIN self.uid_index})

\* the loop `for item in elements` of deserialize, from the i-th item on
RECURSIVE deserialize_items(_, _, _)
deserialize_items(self, elements, i) ==
    IF i > Len(elements) THEN self
    ELSE deserialize_items(
             [tree |-> insert(self.tree, elements[i].start, elements[i]),
              uid_index |-> insert(self.uid_index, elements[i].uid, elements[i])],
             elements, i + 1)

\* impl Deserialize for Calendar: both indices are rebuilt from the
\* elements
deserialize(elements) == deserialize_items(new, elements, 1)

\* postcard::to_allocvec(&self.data): the possible contents, one sequence
\* of elements per calendar name of the map
to_allocvec(data) ==
    {b \in [DOMAIN data -> UNION {serialize(data[n]) : n \in DOMAIN data}] :
        \A n \in DOMAIN data : b[n] \in serialize(data[n])}

\* What the save path holds: nothing, something that cannot be read (the
\* read fails with another error than NotFound), bytes that do not decode,
\* or the bytes of a map.
Absent == [kind |-> "absent"]
Unreadable == [kind |-> "unreadable"]
Garbage == [kind |-> "garbage"]
Postcard(b) == [kind |-> "postcard", calendars |-> b]

\* fs::read(&path)
read(f) ==
    CASE f.kind = "absent"     -> [ok |-> FALSE, err |-> "NotFound"]
      [] f.kind = "unreadable" -> [ok |-> FALSE, err |-> "PermissionDenied"]
      [] OTHER                 -> [ok |-> TRUE, bytes |-> f]

\* postcard::from_bytes(&r): the map of the decoded calendars
from_bytes(r) ==
    IF r.kind = "postcard"
    THEN [ok |-> TRUE,
          data |-> [n \in DOMAIN r.calendars |-> deserialize(r.calendars[n])]]
    ELSE [ok |-> FALSE, data |-> EmptyMap]

\* variant of accepted: every read error yields the empty store
accepted_any(err) == TRUE

\* `io::ErrorKind::NotFound => Ok(..)`: the one read error Store::new
\* accepts
accepted(err) == err = "NotFound"

\* Store::new: the store it builds, or the failure
Store_new(f) ==
    LET r == read(f) IN
    IF r.ok
    THEN LET d == from_bytes(r.bytes) IN
         IF d.ok THEN [ok |-> TRUE, data |-> d.data, error |-> ""]
         ELSE [ok |-> FALSE, data |-> EmptyMap, error |-> "decode"]
    ELSE IF accepted(r.err)
         THEN [ok |-> TRUE, data |-> EmptyMap, error |-> ""]
         ELSE [ok |-> FALSE, data |-> EmptyMap, error |-> r.err]

\* Config: the calendars of the configuration, with their time_amount; the
\* second one carries a time_amount humantime does not parse
config ==
    [calendar |-> [calendars |->
        [n \in {"edt", "exams", "td"} |->
            [time_amount |-> CASE n = "edt"   -> "2s"
                               [] n = "exams" -> "soon"
                               [] n = "td"    -> "1s"]]]]

\* the names apply is called with: configured ones and one that the
\* configuration does not know
CalendarNames == {"edt", "exams", "ghost"}

\* variant of get: an unknown name yields CalendarItem::default()
get_or_default(calendars, calendar) ==
    IF calendar \in DOMAIN calendars
    THEN [found |-> TRUE, item |-> calendars[calendar]]
    ELSE [found |-> TRUE, item |-> [time_amount |-> ""]]

\* self.config.calendar.calendars.get(calendar)
get(calendars, calendar) ==
    IF calendar \in DOMAIN calendars
    THEN [found |-> TRUE, item |-> calendars[calendar]]
    ELSE [found |-> FALSE, item |-> [time_amount |-> ""]]

\* variant of saved: only the calendar that was updated is serialized
saved_one(data, calendar) == [n \in {calendar} |-> data[n]]

\* `&self.data`, what apply hands to the serializer: the whole map
saved(data, calendar) == data

\* variant of proceeds: the result of update is not looked at
proceeds_always(r) == TRUE

\* the `?` on the result of cal.update: apply goes on only with Ok
proceeds(r) == r.ok

\* variant of entry: the map is started afresh for a name it does not hold
entry_alone(data, calendar) ==
    IF calendar \in DOMAIN data THEN data ELSE insert(EmptyMap, calendar, new)

\* `self.data.get_mut(calendar)`, after `self.data.insert(calendar,
\* Calendar::new())` when the name is not in the map: the map in which the
\* name has a calendar
entry(data, calendar) ==
    IF calendar \in DOMAIN data THEN data ELSE insert(data, calendar, new)

\* variant of put: the uids the calendar holds are dropped from the other
\* calendars of the map
put_dedup(data, calendar, cal) ==
    [n \in DOMAIN data |->
        IF n = calendar THEN cal
        ELSE [tree |-> [k \in {x \in DOMAIN data[n].tree :
                                  data[n].tree[x].uid \notin DOMAIN cal.uid_index}
                          |-> data[n].tree[k]],
              uid_index |-> [u \in DOMAIN data[n].uid_index \ DOMAIN cal.uid_index
                               |-> data[n].uid_index[u]]]]

\* `cal` is a mutable borrow of the entry of the name: what update does to
\* it lands in that entry, and in no other
put(data, calendar, cal) == [data EXCEPT ![calendar] = cal]

\* variant of left_on_unknown: the map is as it was before the call
left_on_unknown_clean(data, entered) == data

\* the `?` on the lookup of the configuration returns after the entry of
\* the name has been made: the map is left with that entry
left_on_unknown(data, entered) == entered

\* Store::apply up to the write: the map after the call, whether update
\* was run, and either the error returned or the map to persist with the
\* updates to return.
apply(data, calendar, events, fetch_time) ==
    LET entered == entry(data, calendar)
        cfg == get(config.calendar.calendars, calendar)
        r == update(entered[calendar], events, fetch_time, cfg.item)
        updated == put(entered, calendar,
                       [tree |-> r.tree, uid_index |-> r.uid_index])
    IN  IF ~cfg.found
        THEN [data |-> left_on_unknown(data, entered),
              ran_update |-> FALSE, persists |-> FALSE,
              error |-> "unknown calendar: unreachable", updates |-> <<>>]
        ELSE IF ~proceeds(r)
        THEN [data |-> updated, ran_update |-> TRUE, persists |-> FALSE,
              error |-> r.error, updates |-> <<>>]
        ELSE [data |-> updated, ran_update |-> TRUE, persists |-> TRUE,
              error |-> "", updates |-> r.updates]

\* variant of after_write_error: the map is as it was before the call
after_write_error_restored(before, updated) == before

\* the `?` on fs::write returns after update has worked on the entry: the
\* map is left as update made it
after_write_error(before, updated) == updated

\* fs::write(&self.save_path, data): the file after the call and whether
\* the call succeeded.  A write that fails leaves the file as it was when
\* it could not be opened, and cut short when the failure came after the
\* file was truncated.
WriteOutcomes == {"written", "refused", "truncated"}
write(f, bytes, outcome) ==
    CASE outcome = "written"   -> [ok |-> TRUE, file |-> Postcard(bytes)]
      [] outcome = "refused"   -> [ok |-> FALSE, file |-> f]
      [] outcome = "truncated" -> [ok |-> FALSE, file |-> Garbage]

(***************************************************************************)
(* State: the two indices of one Calendar, and call, the record of the     *)
(* call of update that has just returned (its arguments, the calendar      *)
(* before it, the value it returned, the record of its first loop) until   *)
(* the caller has taken the value.  For the Store: store, the Store of the *)
(* process (none before Store::new, failed when it returned an error,      *)
(* else its data), and file, what the save path holds.                     *)
(***************************************************************************)
VARIABLES tree, uid_index, call, store, file, bot
vars == <<tree, uid_index, call, store, file, bot>>

\* no Bot has been built
NoBot == [start |-> "none"]

NoStore == [status |-> "none"]
Failed == [status |-> "failed"]
Ready(data) == [status |-> "ready", data |-> data]

Idle == [op |-> "idle"]

Init ==
    /\ tree = new.tree
    /\ uid_index = new.uid_index
    /\ call = Idle
    /\ store = NoStore
    /\ file = Absent
    /\ bot = NoBot

\* one call of Calendar::update with any list of events, fetch time and
\* configured time_amount
Update ==
    /\ call = Idle
    /\ \E events \in EventVecs, fetch_time \in Times, time_amount \in TimeAmounts :
        \E r \in {update([tree |-> tree, uid_index |-> uid_index], events,
                         fetch_time, [time_amount |-> time_amount])} :
            /\ tree' = r.tree
            /\ uid_index' = r.uid_index
            /\ call' = [op |-> "update", events |-> events,
                        fetch_time |-> fetch_time, time_amount |-> time_amount,
                        before |-> [tree |-> tree, uid_index |-> uid_index],
                        ret |-> [ok |-> r.ok, updates |-> r.updates,
                                 error |-> r.error, steps |-> r.steps]]
    /\ UNCHANGED <<store, file, bot>>

\* the caller takes the returned value; the calendar is ready for the next
\* call
Return ==
    /\ call # Idle
    /\ call' = Idle
    /\ UNCHANGED <<tree, uid_index, store, file, bot>>

Next == Update \/ Return

Spec == Init /\ [][Next]_vars

\* the runs in which every call of update returns Ok
UpdateOk == Update /\ call'.ret.ok

SpecOk == Init /\ [][UpdateOk \/ Return]_vars

(***************************************************************************)
(* The Store: Store::new, Store::apply and the range query of the summary  *)
(* command, over a save path that may hold anything when the process       *)
(* starts.                                                                 *)
(***************************************************************************)
\* the events the feeds deliver: one event and its edited version
StoreEvents == {Event("000", 0, d) : d \in Descriptions}
\* the lists handed to apply
Fetches == {<<>>} \cup {<<e>> : e \in StoreEvents}
\* the durations of a range query
Durations == 1..(MaxTime + 1)

\* what the save path may hold when the process starts: nothing, something
\* unreadable, bytes that do not decode, or what an earlier run wrote
StartFiles ==
    {Absent, Unreadable, Garbage, Postcard(EmptyMap)}
    \cup {Postcard([n \in {"edt"} |-> <<e>>]) : e \in StoreEvents}
    \cup {Postcard([n \in {"edt", "exams"} |->
                        IF n = "edt" THEN <<e>> ELSE <<Event("002", 1, "")>>]) :
             e \in StoreEvents}

InitStore ==
    /\ tree = new.tree
    /\ uid_index = new.uid_index
    /\ call = Idle
    /\ store = NoStore
    /\ file \in StartFiles
    /\ bot = NoBot

\* Store::new, once, when the process starts
New ==
    /\ store = NoStore
    /\ call = Idle
    /\ \E r \in {Store_new(file)} :
        /\ store' = IF r.ok THEN Ready(r.data) ELSE Failed
        /\ call' = [op |-> "new", before |-> [file |-> file],
                    ret |-> [ok |-> r.ok, error |-> r.error]]
    /\ UNCHANGED <<tree, uid_index, file, bot>>

\* one call of Store::apply, the write included
Apply ==
    /\ store.status = "ready"
    /\ call = Idle
    /\ \E calendar \in CalendarNames, events \in Fetches, fetch_time \in Times :
        \E a \in {apply(store.data, calendar, events, fetch_time)} :
            /\ IF a.persists
               THEN \E bytes \in to_allocvec(saved(a.data, calendar)),
                       outcome \in WriteOutcomes :
                        \E w \in {write(file, bytes, outcome)} :
                            /\ file' = w.file
                            /\ store' =
                                 Ready(IF w.ok THEN a.data
                                       ELSE after_write_error(store.data,
                                                              a.data))
                            /\ call' = [op |-> "apply", calendar |-> calendar,
                                        events |-> events, fetch_time |-> fetch_time,
                                        before |-> [data |-> store.data, file |-> file],
                                        ran_update |-> a.ran_update,
                                        write |-> outcome,
                                        ret |-> [ok |-> w.ok,
                                                 updates |-> IF w.ok THEN a.updates
                                                             ELSE <<>>,
                                                 error |-> IF w.ok THEN ""
                                                           ELSE "write"]]
               ELSE /\ file' = file
                    /\ store' = Ready(a.data)
                    /\ call' = [op |-> "apply", calendar |-> calendar,
                                events |-> events, fetch_time |-> fetch_time,
                                before |-> [data |-> store.data, file |-> file],
                                ran_update |-> a.ran_update,
                                write |-> "none",
                                ret |-> [ok |-> FALSE, updates |-> <<>>,
                                         error |-> a.error]]
    /\ UNCHANGED <<tree, uid_index, bot>>

\* the summary command: reader.store.data.get(name) and get_range on it
GetRange ==
    /\ store.status = "ready"
    /\ call = Idle
    /\ \E name \in DOMAIN store.data, from \in Times, duration \in Durations :
        call' = [op |-> "get_range", name |-> name, from |-> from,
                 duration |-> duration,
                 before |-> [data |-> store.data, file |-> file],
                 ret |-> get_range(store.data[name], from, duration)]
    /\ UNCHANGED <<tree, uid_index, store, file, bot>>

NextStore == New \/ Apply \/ GetRange \/ Return

SpecStore == InitStore /\ [][NextStore]_vars

(***************************************************************************)
(* Vocabulary of the properties.                                           *)
(***************************************************************************)
IsUpdate == call.op = "update"
\* the last call of update returned Ok(updates)
ReturnedOk == IsUpdate /\ call.ret.ok

\* the iterations of the first loop of the last call
Steps == {call.ret.steps[k] : k \in DOMAIN call.ret.steps}

\* the identity index of the last call when its deletion scan starts
StoredAtScan ==
    update(call.before, call.events, call.fetch_time,
           [time_amount |-> call.time_amount]).first.uid_index

\* the uid a change record is about
uid_of(r) == IF r.kind = "Updated" THEN r.old.uid ELSE r.event.uid
\* the positions, in the returned list, of the records of one kind about u
RecordsAbout(u, kind) ==
    {k \in DOMAIN call.ret.updates :
        call.ret.updates[k].kind = kind /\ uid_of(call.ret.updates[k]) = u}
AnyRecordAbout(u) ==
    \E k \in DOMAIN call.ret.updates : uid_of(call.ret.updates[k]) = u

\* the events a map holds
Held(m) == {m[k] : k \in DOMAIN m}
\* the starts that occur in the list handed to the call
FetchedStarts == {call.events[i].start : i \in DOMAIN call.events}
\* the deletion window [fetch_time, fetch_time + time_amount)
InWindow(t) ==
    /\ call.fetch_time <= t
    /\ t < call.fetch_time + parse_duration(call.time_amount).secs
\* the earliest start in the chronological index when the call began, the
\* maximum timestamp if it held nothing
Frontier ==
    IF DOMAIN call.before.tree = {} THEN MAX_UTC
    ELSE CHOOSE m \in DOMAIN call.before.tree :
            \A k \in DOMAIN call.before.tree : m <= k

(***************************************************************************)
(* C1. After any sequence of successful updates from the empty calendar,   *)
(* the two indices hold the same events: every event of uid_index is in    *)
(* tree under its own start, and every entry of tree is the uid_index      *)
(* entry of its uid.  (Checked on the runs of SpecOk.)                     *)
(***************************************************************************)
C1_IndicesHoldSameEvents ==
    /\ \A u \in DOMAIN uid_index :
          /\ uid_index[u].start \in DOMAIN tree
          /\ tree[uid_index[u].start] = uid_index[u]
    /\ \A s \in DOMAIN tree :
          /\ tree[s].uid \in DOMAIN uid_index
          /\ uid_index[tree[s].uid] = tree[s]

(***************************************************************************)
(* C2. For a stored event with uid u, an update whose list contains an     *)
(* event with uid u that differs from the stored one returns exactly one   *)
(* Updated record for u, with old the event stored before the call and new *)
(* the incoming event, and no Created or Removed record for u.             *)
(***************************************************************************)
C2_ExactlyOneUpdated ==
    ReturnedOk =>
        \A u \in DOMAIN call.before.uid_index :
            \A i \in DOMAIN call.events :
                (call.events[i].uid = u /\ call.events[i] # call.before.uid_index[u])
                => /\ Cardinality(RecordsAbout(u, "Updated")) = 1
                   /\ \A k \in RecordsAbout(u, "Updated") :
                         call.ret.updates[k] =
                             Updated(call.before.uid_index[u], call.events[i])
                   /\ RecordsAbout(u, "Created") = {}
                   /\ RecordsAbout(u, "Removed") = {}

(***************************************************************************)
(* C3. When update replaces a stored event (same uid, other content), then *)
(* right after the replacement uid_index maps the uid to the new event,    *)
(* tree holds the new event under new.start and the old version is in      *)
(* neither index, whether the two starts are equal or not.                 *)
(***************************************************************************)
C3_ReplacedInBothIndices ==
    IsUpdate =>
        \A st \in Steps :
            (st.known /\ st.pushed # <<>>)
            => /\ st.in_uid_index
               /\ st.in_tree
               /\ ~st.old_held

(***************************************************************************)
(* C4. For a stored event e, an update whose list contains an event equal  *)
(* to e returns no Created, Updated or Removed record for e.               *)
(*   C4_NoRecordForResupplied states it as claimed;                        *)
(*   C4_NoRecordForResuppliedAlone states it for the lists in which every  *)
(*   event that carries the uid of e is equal to e.                        *)
(***************************************************************************)
C4_NoRecordForResupplied ==
    ReturnedOk =>
        \A u \in DOMAIN call.before.uid_index :
            (\E i \in DOMAIN call.events :
                call.events[i] = call.before.uid_index[u])
            => ~AnyRecordAbout(u)

C4_NoRecordForResuppliedAlone ==
    ReturnedOk =>
        \A u \in DOMAIN call.before.uid_index :
            ( /\ \E i \in DOMAIN call.events :
                    call.events[i] = call.before.uid_index[u]
              /\ \A j \in DOMAIN call.events :
                    call.events[j].uid = u
                    => call.events[j] = call.before.uid_index[u] )
            => ~AnyRecordAbout(u)

\* a stored event is handed back unchanged while the same call reports a
\* change about another event
C4_Witness ==
    /\ ReturnedOk
    /\ call.ret.updates # <<>>
    /\ \E u \in DOMAIN call.before.uid_index :
          /\ \E i \in DOMAIN call.events :
                call.events[i] = call.before.uid_index[u]
          /\ \A j \in DOMAIN call.events :
                call.events[j].uid = u
                => call.events[j] = call.before.uid_index[u]

PairwiseDistinct(events) ==
    \A i, j \in DOMAIN events :
        i # j => /\ events[i].uid # events[j].uid
                 /\ events[i].start # events[j].start

C7_CreatedForEachOnEmpty ==
    ( /\ ReturnedOk
      /\ DOMAIN call.before.tree = {}
      /\ DOMAIN call.before.uid_index = {}
      /\ PairwiseDistinct(call.events) )
    => /\ Len(call.ret.updates) = Len(call.events)
       /\ \A i \in DOMAIN call.events :
             \E k \in DOMAIN call.ret.updates :
                call.ret.updates[k] = Created(call.events[i])
       /\ \A k, l \in DOMAIN call.ret.updates :
             k < l => call.ret.updates[k].event.start
                        < call.ret.updates[l].event.start

\* two events handed to the empty calendar, the later one first
C7_Witness ==
    /\ ReturnedOk
    /\ DOMAIN call.before.tree = {}
    /\ DOMAIN call.before.uid_index = {}
    /\ PairwiseDistinct(call.events)
    /\ Len(call.events) = 2
    /\ call.events[1].start > call.events[2].start
    /\ Len(call.ret.updates) = 2

(***************************************************************************)
(* C8. After update, every stored event whose start lies in the window     *)
(* [fetch_time, fetch_time + time_amount) and whose start is not among the *)
(* starts of the incoming events has been removed from both indices, and   *)
(* exactly one Removed record carrying it was returned; update([]) removes *)
(* and reports every stored event of the window.  The stored events are    *)
(* those of the identity index when the deletion scan starts.              *)
(***************************************************************************)
C8_MissingEventsRemoved ==
    ReturnedOk =>
        \A e \in Held(StoredAtScan) :
            (InWindow(e.start) /\ e.start \notin FetchedStarts)
            => /\ e \notin Held(uid_index)
               /\ e \notin Held(tree)
               /\ Cardinality({k \in DOMAIN call.ret.updates :
                                  call.ret.updates[k] = Removed(e)}) = 1

(***************************************************************************)
(* C9. Removed is returned only for stored events that are missing from    *)
(* the fetch: every Removed record carries an event that was stored before *)
(* the call and whose start is not among the fetched starts, and a stored  *)
(* event handed back with the same uid and the same start is never         *)
(* reported Removed.                                                       *)
(***************************************************************************)
C9_ResuppliedNeverRemoved ==
    ReturnedOk =>
        /\ \A k \in DOMAIN call.ret.updates :
              call.ret.updates[k].kind = "Removed"
              => /\ call.ret.updates[k].event \in Held(call.before.uid_index)
                 /\ call.ret.updates[k].event.start \notin FetchedStarts
        /\ \A u \in DOMAIN call.before.uid_index :
              (\E i \in DOMAIN call.events :
                  /\ call.events[i].uid = u
                  /\ call.events[i].start = call.before.uid_index[u].start)
              => RecordsAbout(u, "Removed") = {}

\* one stored event is handed back at its start while another one, missing
\* from the fetch, is reported Removed by the same call
C9_Witness ==
    /\ ReturnedOk
    /\ \E k \in DOMAIN call.ret.updates : call.ret.updates[k].kind = "Removed"
    /\ \E u \in DOMAIN call.before.uid_index :
          \E i \in DOMAIN call.events :
              /\ call.events[i].uid = u
              /\ call.events[i].start = call.before.uid_index[u].start
              /\ InWindow(call.events[i].start)

(***************************************************************************)
(* C10. No update returns a Removed record for an event whose start is     *)
(* outside [fetch_time, fetch_time + time_amount).                         *)
(***************************************************************************)
C10_RemovedOnlyInWindow ==
    ReturnedOk =>
        \A k \in DOMAIN call.ret.updates :
            call.ret.updates[k].kind = "Removed"
            => InWindow(call.ret.updates[k].event.start)

\* a stored event outside the window is missing from the fetch and stays,
\* while the same call reports another one Removed
C10_Witness ==
    /\ ReturnedOk
    /\ \E k \in DOMAIN call.ret.updates : call.ret.updates[k].kind = "Removed"
    /\ \E e \in Held(call.before.tree) :
          /\ ~InWindow(e.start)
          /\ e.start \notin FetchedStarts
          /\ e \in Held(tree) \cap Held(uid_index)

(***************************************************************************)
(* C11. An update leaves unchanged, in both indices, every stored event    *)
(* whose start is outside [fetch_time, fetch_time + time_amount) and whose *)
(* uid does not occur in the list handed to the call: uid_index still maps *)
(* its uid to it, and every key of tree that held it still holds it.       *)
(***************************************************************************)
FetchedUids == {call.events[i].uid : i \in DOMAIN call.events}

C11_OutsideWindowUntouched ==
    IsUpdate =>
        \A u \in DOMAIN call.before.uid_index :
            LET e == call.before.uid_index[u] IN
            (~InWindow(e.start) /\ u \notin FetchedUids)
            => /\ u \in DOMAIN uid_index /\ uid_index[u] = e
               /\ \A k \in DOMAIN call.before.tree :
                     call.before.tree[k] = e
                     => k \in DOMAIN tree /\ tree[k] = e

(***************************************************************************)
(* C12. The list returned by one update is made of the Created and Updated *)
(* records first, in ascending order of the start of the incoming event,   *)
(* then of the Removed records, in ascending order of the start of the     *)
(* removed event.                                                          *)
(***************************************************************************)
\* the start a record is ordered by
start_of(r) == IF r.kind = "Updated" THEN r.new.start ELSE r.event.start

C12_CreatedUpdatedThenRemoved ==
    ReturnedOk =>
        \A k, l \in DOMAIN call.ret.updates :
            k < l =>
                LET a == call.ret.updates[k]
                    b == call.ret.updates[l]
                IN  /\ a.kind = "Removed" => b.kind = "Removed"
                    /\ (a.kind = "Removed") = (b.kind = "Removed")
                       => start_of(a) < start_of(b)

\* an Updated record for a later start comes before the Removed record of
\* an earlier start
C12_Witness ==
    /\ ReturnedOk
    /\ Len(call.ret.updates) = 2
    /\ call.ret.updates[1].kind = "Updated"
    /\ call.ret.updates[2].kind = "Removed"
    /\ call.ret.updates[1].new.start > call.ret.updates[2].event.start

(***************************************************************************)
(* C14. Two events of different uid and equal start handed to the same     *)
(* calendar are both kept in the chronological index and both returned by  *)
(* get_range over a range that covers their start.                         *)
(***************************************************************************)
C14_SameStartBothKept ==
    ReturnedOk =>
        \A i, j \in DOMAIN call.events :
            ( /\ call.events[i].uid # call.events[j].uid
              /\ call.events[i].start = call.events[j].start )
            => LET got == get_range([tree |-> tree, uid_index |-> uid_index],
                                    call.events[i].start, 1)
               IN  /\ call.events[i] \in Held(tree)
                   /\ call.events[j] \in Held(tree)
                   /\ \E k \in DOMAIN got : got[k] = call.events[i]
                   /\ \E k \in DOMAIN got : got[k] = call.events[j]

(***************************************************************************)
(* Vocabulary of the properties of the Store.                              *)
(***************************************************************************)
IsApply == call.op = "apply"
IsGetRange == call.op = "get_range"
IsNew == call.op = "new"
\* the calendar the last apply worked on, as it was when update was called
CalendarBefore ==
    IF call.calendar \in DOMAIN call.before.data
    THEN call.before.data[call.calendar] ELSE new
\* the elements of a sequence
Elements(q) == {q[k] : k \in DOMAIN q}

(***************************************************************************)
(* C13. get_range(from, d) returns exactly the events held in the calendar *)
(* (those of the identity index) whose start is in [from, from + d), in    *)
(* ascending start order, and leaves the store as it was.                  *)
(***************************************************************************)
C13_RangeReturnsHeld ==
    IsGetRange =>
        LET held == {e \in Held(store.data[call.name].uid_index) :
                        call.from <= e.start /\ e.start < call.from + call.duration}
        IN  /\ Elements(call.ret) = held
            /\ Len(call.ret) = Cardinality(held)
            /\ \A k, l \in DOMAIN call.ret :
                  k < l => call.ret[k].start <= call.ret[l].start
            /\ store.data = call.before.data
            /\ call.ret = get_range(store.data[call.name], call.from, call.duration)

(***************************************************************************)
(* C15. In every state of the store reached by calls of apply, serializing *)
(* the map and deserializing the result yields, for every calendar name, a *)
(* calendar with the same identity lookups and the same get_range results. *)
(***************************************************************************)
C15_RoundTripKeepsQueries ==
    store.status = "ready" =>
        \A b \in to_allocvec(store.data) :
            LET d == from_bytes(Postcard(b)) IN
            /\ d.ok
            /\ DOMAIN d.data = DOMAIN store.data
            /\ \A n \in DOMAIN store.data :
                  /\ d.data[n].uid_index = store.data[n].uid_index
                  /\ \A from \in Times, duration \in Durations :
                        get_range(d.data[n], from, duration)
                            = get_range(store.data[n], from, duration)

(***************************************************************************)
(* C16. After every apply that returns Ok, the save path holds a           *)
(* serialization of the whole map of the store: every calendar of the map, *)
(* with the events it holds.                                               *)
(***************************************************************************)
C16_FileIsWholeMap ==
    (IsApply /\ call.ret.ok) =>
        /\ file.kind = "postcard"
        /\ file.calendars \in to_allocvec(store.data)

\* an apply to one calendar is written while another calendar holds two
\* events
C16_Witness ==
    /\ IsApply /\ call.ret.ok
    /\ call.calendar = "edt"
    /\ call.ret.updates # <<>>
    /\ "exams" \in DOMAIN store.data
    /\ Cardinality(DOMAIN store.data["exams"].uid_index) = 2
    /\ file # call.before.file

(***************************************************************************)
(* C17. When the write fails, apply returns an error, the map of the store *)
(* keeps what the reconciliation did to it, and the save path holds what   *)
(* it held before the call.                                                *)
(***************************************************************************)
C17_FailedWriteKeepsFile ==
    (IsApply /\ call.write \in {"refused", "truncated"}) =>
        /\ ~call.ret.ok
        /\ store.data = apply(call.before.data, call.calendar, call.events,
                              call.fetch_time).data
        /\ file = call.before.file

(***************************************************************************)
(* C18. When Calendar::update returns an error, apply returns that error   *)
(* and does not write: the save path holds exactly what it held before.    *)
(***************************************************************************)
C18_UpdateErrorNotWritten ==
    ( /\ IsApply
      /\ call.calendar \in DOMAIN config.calendar.calendars
      /\ ~update(CalendarBefore, call.events, call.fetch_time,
                 config.calendar.calendars[call.calendar]).ok )
    => /\ ~call.ret.ok
       /\ call.ret.error = update(CalendarBefore, call.events, call.fetch_time,
                                  config.calendar.calendars[call.calendar]).error
       /\ call.write = "none"
       /\ file = call.before.file

\* update fails after it has changed the calendar, while the save path
\* holds an earlier map
C18_Witness ==
    /\ IsApply
    /\ call.calendar = "exams"
    /\ call.ran_update
    /\ ~call.ret.ok
    /\ store.data # call.before.data
    /\ file.kind = "postcard"
    /\ file.calendars \notin to_allocvec(store.data)

(***************************************************************************)
(* C19. apply with a calendar name the configuration does not know returns *)
(* an error, does not run Calendar::update and writes nothing.             *)
(***************************************************************************)
C19_UnknownCalendarRejected ==
    (IsApply /\ call.calendar \notin DOMAIN config.calendar.calendars) =>
        /\ ~call.ret.ok
        /\ ~call.ran_update
        /\ call.write = "none"
        /\ file = call.before.file

\* apply is called with the unknown name and a list of events while the
\* save path holds a map
C19_Witness ==
    /\ IsApply
    /\ call.calendar = "ghost"
    /\ call.events # <<>>
    /\ ~call.ret.ok
    /\ file.kind = "postcard"

(***************************************************************************)
(* C20. Store::new yields the empty store when the save path holds         *)
(* nothing, the persisted map when it holds bytes that decode, and fails   *)
(* on any other read error and on bytes that do not decode.                *)
(***************************************************************************)
C20_NewLoadsOrFails ==
    IsNew =>
        /\ call.before.file.kind = "absent"
           => call.ret.ok /\ store = Ready(EmptyMap)
        /\ call.before.file.kind = "postcard"
           => /\ call.ret.ok
              /\ store.status = "ready"
              /\ DOMAIN store.data = DOMAIN call.before.file.calendars
              /\ \A n \in DOMAIN store.data :
                    /\ Held(store.data[n].uid_index)
                           = Elements(call.before.file.calendars[n])
                    /\ \A e \in Elements(call.before.file.calendars[n]) :
                          store.data[n].uid_index[e.uid] = e
        /\ call.before.file.kind \in {"unreadable", "garbage"}
           => ~call.ret.ok /\ store = Failed

\* a map of two calendars is loaded
C20_Witness ==
    /\ IsNew
    /\ call.ret.ok
    /\ store.status = "ready"
    /\ DOMAIN store.data = {"edt", "exams"}
    /\ \A n \in DOMAIN store.data : store.data[n].uid_index # EmptyMap

(***************************************************************************)
(* C21. apply creates an empty Calendar for a name the map does not hold   *)
(* (the calendar it leaves under a new name is what update makes of        *)
(* Calendar::new()), and no apply, succeeding or failing, removes a name   *)
(* from the map.                                                           *)
(***************************************************************************)
C21_NamesCreatedNeverRemoved ==
    IsApply =>
        /\ DOMAIN call.before.data \subseteq DOMAIN store.data
        /\ call.calendar \in DOMAIN store.data
        /\ call.calendar \notin DOMAIN call.before.data
           => IF call.calendar \in DOMAIN config.calendar.calendars
              THEN LET r == update(new, call.events, call.fetch_time,
                                   config.calendar.calendars[call.calendar])
                   IN  store.data[call.calendar]
                          = [tree |-> r.tree, uid_index |-> r.uid_index]
              ELSE store.data[call.calendar] = new

\* a failing apply brings a new name into a map that holds other names
C21_Witness ==
    /\ IsApply
    /\ ~call.ret.ok
    /\ call.calendar \notin DOMAIN call.before.data
    /\ call.before.data # EmptyMap
    /\ \E n \in DOMAIN call.before.data : call.before.data[n].uid_index # EmptyMap

(***************************************************************************)
(* C22. apply for one calendar leaves every other calendar of the map as   *)
(* it was, also when both hold an event of the same uid.                   *)
(***************************************************************************)
C22_OtherCalendarsUntouched ==
    IsApply =>
        \A n \in DOMAIN call.before.data \ {call.calendar} :
            /\ n \in DOMAIN store.data
            /\ store.data[n] = call.before.data[n]

\* apply changes or removes the event of a uid in one calendar while
\* another calendar holds an event of that uid
C22_Witness ==
    /\ IsApply /\ call.ret.ok
    /\ call.calendar = "edt"
    /\ \E k \in DOMAIN call.ret.updates :
          /\ call.ret.updates[k].kind \in {"Updated", "Removed"}
          /\ uid_of(call.ret.updates[k]) = "000"
    /\ "exams" \in DOMAIN store.data
    /\ "000" \in DOMAIN store.data["exams"].uid_index

(***************************************************************************)
(* C28. After an update that returns Ok, uid_index maps the uid of every   *)
(* event of the list handed to the call to an event equal to it.           *)
(***************************************************************************)
C28_FetchedUidsMatch ==
    ReturnedOk =>
        \A i \in DOMAIN call.events :
            /\ call.events[i].uid \in DOMAIN uid_index
            /\ uid_index[call.events[i].uid] = call.events[i]

\* ---------------------------------------------------------------------
\* Bot: the three tasks of Bot::start, the lock around the Manager and the
\* cycles of manager_task
\* ---------------------------------------------------------------------

\* timer cycles one run of manager_task goes through
MaxCycles == 1

\* the tasks Bot::start spawns
Tasks == {"framework", "manager", "watcher"}

\* the request handlers that read the store (summary command)
Readers == {"r1", "r2"}

\* Config::calendar.refetch values: one saffron parses, one it rejects
Refetches == {"0 * * * *", "hourly"}

\* str::parse::<CronExpr>: whether the expression is accepted
cron_parse(refetch) == refetch = "0 * * * *"

\* result of Manager::fetch_task for one feed, with the date taken after it
FetchFailed == [ok |-> FALSE, events |-> <<>>, fetch_date |-> 0]
Fetched(events, fetch_date) ==
    [ok |-> TRUE, events |-> events, fetch_date |-> fetch_date]

\* the list a feed delivers when its fetch succeeds
Delivered == {<<Event("000", 0, "")>>}

\* the dates the fetch tasks read from the clock
FetchDates == {0}

FetchResults ==
    {FetchFailed} \cup {Fetched(l, t) : l \in Delivered, t \in FetchDates}

\* the files Store::new finds when the Bot is built
BotFiles ==
    {Absent, Postcard([n \in {"edt"} |-> <<Event("002", 1, "")>>])}

\* RwLock<Manager>::write resolves when nobody holds the lock
write_available_shared(b) == ~b.writer
write_available(b) == ~b.writer /\ b.readers = {}

\* RwLock<Manager>::read resolves when no writer holds or awaits the lock
read_available_always(b) == TRUE
read_available(b) == ~b.writer /\ b.manager # "locking"

\* state of a cycle of manager_task
NoCycle == [kind |-> "none"]

\* update_calendars is running
InCycle(b) == b.manager \in {"fetching", "applying", "persisting"}

\* broadcast::Sender::send: every receiver that exists gets the message
\* (signalled remembers that it came while update_calendars was running)
send(b) ==
    [b EXCEPT !.pending = b.pending \cup b.subscribed,
              !.cycle = IF InCycle(b) /\ "manager" \in b.subscribed
                        THEN [@ EXCEPT !.signalled = TRUE] ELSE @]
Cycle(kind) ==
    [kind |-> kind, fetched |-> EmptyMap, todo |-> <<>>,
     calendars |-> EmptyMap, applied |-> <<>>, returned |-> <<>>,
     before |-> EmptyMap, pre |-> EmptyMap, signalled |-> FALSE]

\* what a reader holds: nothing, or the ranges get_range gave it
NotReading == [reading |-> FALSE]

\* Bot::new has built the Manager from one of the files, and the map of
\* the configuration iterates in one of the orders
BotBuilt(files, orders) ==
    /\ tree = EmptyMap
    /\ uid_index = EmptyMap
    /\ call = Idle
    /\ file \in files
    /\ store = Ready(Store_new(file).data)
    /\ \E refetch \in Refetches, order \in orders :
        bot = [start |-> "waiting", refetch |-> refetch, order |-> order,
               framework |-> "running", manager |-> "spawned",
               watcher |-> "spawned",
               results |-> [t \in Tasks |-> "none"],
               subscribed |-> {"framework"}, pending |-> {},
               first |-> "none", joined |-> {}, result |-> "none",
               writer |-> FALSE, readers |-> {},
               seen |-> [r \in Readers |-> NotReading],
               cycle |-> NoCycle, cycles |-> 0,
               done_cycles |-> <<>>, handed |-> <<>>]

InitBot == BotBuilt(BotFiles, Orders(DOMAIN config.calendar.calendars))

\* a task finished with the given result
finish(b, task, result) ==
    [b EXCEPT ![task] = "done", !.results[task] = result]

\* manager_task up to its first await: the cron expression is parsed and
\* the shutdown receiver is created
ManagerStart ==
    /\ bot.manager = "spawned"
    /\ bot' = IF cron_parse(bot.refetch)
              THEN [bot EXCEPT !.manager = "locking",
                               !.subscribed = @ \cup {"manager"},
                               !.cycle = Cycle("startup")]
              ELSE finish(bot, "manager", "err")
    /\ UNCHANGED <<tree, uid_index, call, store, file>>

\* calendar_manager.write().await resolves
AcquireWrite ==
    /\ bot.manager = "locking"
    /\ write_available(bot)
    /\ bot' = [bot EXCEPT !.manager = "fetching", !.writer = TRUE,
                          !.cycle.before = store.data]
    /\ UNCHANGED <<tree, uid_index, call, store, file>>

\* update_calendars: join_all of the fetch tasks, in the order of the
\* configuration's map
Fetch ==
    /\ bot.manager = "fetching"
    /\ \E fetched \in [DOMAIN config.calendar.calendars -> FetchResults] :
        bot' = [bot EXCEPT !.manager = "applying",
                           !.cycle.fetched = fetched,
                           !.cycle.todo = bot.order]
    /\ UNCHANGED <<tree, uid_index, call, store, file>>

\* whether the loop of update_calendars passes over a feed
skipped_never(result) == FALSE
skipped(result) == ~result.ok

\* update_calendars: the Err arm of the loop
Skip ==
    /\ bot.manager = "applying"
    /\ bot.cycle.todo # <<>>
    /\ skipped(bot.cycle.fetched[Head(bot.cycle.todo)])
    /\ bot' = [bot EXCEPT !.cycle.todo = Tail(@)]
    /\ UNCHANGED <<tree, uid_index, call, store, file>>

\* Store::apply, first half: the entry is created and pass 1 of update has
\* reconciled the fetched events
Reconcile ==
    /\ bot.manager = "applying"
    /\ bot.cycle.todo # <<>>
    /\ ~skipped(bot.cycle.fetched[Head(bot.cycle.todo)])
    /\ \E name \in {Head(bot.cycle.todo)} :
       \E f \in {bot.cycle.fetched[name]},
          entered \in {entry(store.data, name)} :
        /\ store' = Ready(put(entered, name,
                              update(entered[name], f.events, f.fetch_date,
                                     get(config.calendar.calendars,
                                         name).item).first))
        /\ bot' = [bot EXCEPT !.manager = "persisting",
                              !.cycle.pre = store.data,
                              !.cycle.applied = Append(@, name)]
    /\ UNCHANGED <<tree, uid_index, call, file>>

\* the cycle ends: update_calendars returns and the write guard is dropped
end_cycle(b, ok, data) ==
    [b EXCEPT !.writer = FALSE,
              !.done_cycles = Append(@, [kind |-> b.cycle.kind, ok |-> ok,
                                         fetched |-> b.cycle.fetched,
                                         applied |-> b.cycle.applied,
                                         returned |-> b.cycle.returned,
                                         calendars |-> b.cycle.calendars,
                                         before |-> b.cycle.before,
                                         after |-> data,
                                         signalled |-> b.cycle.signalled]),
              !.cycle = NoCycle]

\* what manager_task does with an error of update_calendars: `?` returns it
propagate(b) == finish(b, "manager", "err")

\* Store::apply, second half: pass 2 of update and the write of the file;
\* an error leaves update_calendars and manager_task through `?`
Persist ==
    /\ bot.manager = "persisting"
    /\ \E name \in {Head(bot.cycle.todo)} :
       \E f \in {bot.cycle.fetched[name]} :
       \E a \in {apply(bot.cycle.pre, name, f.events, f.fetch_date)} :
           /\ store' = Ready(a.data)
           /\ IF a.persists
              THEN \E bytes \in to_allocvec(saved(a.data, name)),
                      outcome \in WriteOutcomes :
                       \E w \in {write(file, bytes, outcome)} :
                           /\ file' = w.file
                           /\ bot' =
                               IF w.ok
                               THEN [bot EXCEPT
                                       !.manager = "applying",
                                       !.cycle.todo = Tail(@),
                                       !.cycle.returned =
                                           Append(@, [name |-> name,
                                                      updates |-> a.updates]),
                                       !.cycle.calendars =
                                           insert(@, name, a.updates)]
                               ELSE propagate(end_cycle(bot, FALSE, a.data))
              ELSE /\ file' = file
                   /\ bot' = propagate(end_cycle(bot, FALSE, a.data))
    /\ UNCHANGED <<tree, uid_index, call>>

\* update_calendars returns Ok(calendars); the startup call drops the map,
\* the timer call passes it on
CycleReturn ==
    /\ bot.manager = "applying"
    /\ bot.cycle.todo = <<>>
    /\ bot' = [end_cycle(bot, TRUE, store.data) EXCEPT
                 !.manager = IF bot.cycle.kind = "startup"
                             THEN "sleeping" ELSE "notifying"]
    /\ UNCHANGED <<tree, uid_index, call, store, file>>

\* process_events with the map of the timer cycle
Notify ==
    /\ bot.manager = "notifying"
    /\ bot' = [bot EXCEPT
                 !.manager = "sleeping",
                 !.handed = Append(@,
                     [cycle |-> Len(bot.done_cycles),
                      updates_map |->
                          bot.done_cycles[Len(bot.done_cycles)].calendars])]
    /\ UNCHANGED <<tree, uid_index, call, store, file>>

\* select!: the sleep until the next cron date elapses
TimerFires ==
    /\ bot.manager = "sleeping"
    /\ bot.cycles < MaxCycles
    /\ bot' = [bot EXCEPT !.manager = "locking", !.cycles = @ + 1,
                          !.cycle = Cycle("timer")]
    /\ UNCHANGED <<tree, uid_index, call, store, file>>

\* the places where manager_task polls shutdown.recv()
polls_everywhere(b) == b.manager \notin {"spawned", "done"}
polls(b) == b.manager = "sleeping"

\* the shutdown branch of the select!: `return Ok(())`
notify_then_return(b) ==
    finish([b EXCEPT !.handed = Append(@, [cycle |-> Len(b.done_cycles),
                                           updates_map |-> EmptyMap])],
           "manager", "ok")
return_ok(b) == finish(b, "manager", "ok")

\* select!: shutdown.recv() resolves
ManagerStops ==
    /\ polls(bot)
    /\ "manager" \in bot.pending
    /\ bot' = [return_ok(bot) EXCEPT !.writer = FALSE, !.cycle = NoCycle]
    /\ UNCHANGED <<tree, uid_index, call, store, file>>

\* summary: calendar_manager.read().await, then get_range of every
\* configured calendar the store holds
ReadLock ==
    /\ \E r \in Readers, from \in Times, duration \in Durations :
        /\ ~bot.seen[r].reading
        /\ read_available(bot)
        /\ bot' = [bot EXCEPT
                     !.readers = @ \cup {r},
                     !.seen[r] =
                        [reading |-> TRUE, from |-> from,
                         duration |-> duration,
                         ranges |->
                            [n \in DOMAIN config.calendar.calendars
                                   \cap DOMAIN store.data |->
                                get_range(store.data[n], from, duration)]]]
    /\ UNCHANGED <<tree, uid_index, call, store, file>>

\* summary returns: the read guard is dropped
ReadUnlock ==
    /\ \E r \in bot.readers :
        bot' = [bot EXCEPT !.readers = @ \ {r}, !.seen[r] = NotReading]
    /\ UNCHANGED <<tree, uid_index, call, store, file>>

\* the manager, the lock and the readers
NextCycle ==
    \/ ManagerStart \/ AcquireWrite \/ Fetch \/ Skip \/ Reconcile
    \/ Persist \/ CycleReturn \/ Notify \/ TimerFires
    \/ ReadLock \/ ReadUnlock

SpecCycle == InitBot /\ [][NextCycle]_vars

\* the framework task: start_autosharded returns, with or without an error
FrameworkEnds ==
    /\ bot.framework = "running"
    /\ \E result \in {"ok", "err"} : bot' = finish(bot, "framework", result)
    /\ UNCHANGED <<tree, uid_index, call, store, file>>

\* the framework task: shutdown.recv() resolves, the shards are shut down
FrameworkStops ==
    /\ bot.framework = "running"
    /\ "framework" \in bot.pending
    /\ bot' = finish(bot, "framework", "ok")
    /\ UNCHANGED <<tree, uid_index, call, store, file>>

\* wait_for_stop_signal up to its select!: the receiver is created
WatcherStart ==
    /\ bot.watcher = "spawned"
    /\ bot' = [bot EXCEPT !.watcher = "waiting",
                          !.subscribed = @ \cup {"watcher"}]
    /\ UNCHANGED <<tree, uid_index, call, store, file>>

\* wait_for_stop_signal: ctrl_c() resolves
CtrlC ==
    /\ bot.watcher = "waiting"
    /\ \E result \in {"ok", "err"} :
        bot' = IF result = "ok"
               THEN finish(send(bot), "watcher", "ok")
               ELSE finish(bot, "watcher", "err")
    /\ UNCHANGED <<tree, uid_index, call, store, file>>

\* wait_for_stop_signal: shutdown.recv() resolves
WatcherStops ==
    /\ bot.watcher = "waiting"
    /\ "watcher" \in bot.pending
    /\ bot' = finish(bot, "watcher", "ok")
    /\ UNCHANGED <<tree, uid_index, call, store, file>>

\* Bot::start: the first task to finish is taken and the shutdown is sent
StartFirst ==
    /\ bot.start = "waiting"
    /\ \E t \in Tasks :
        /\ bot[t] = "done"
        /\ bot' = [send(bot) EXCEPT !.start = "joining",
                                    !.first = bot.results[t],
                                    !.joined = {t}]
    /\ UNCHANGED <<tree, uid_index, call, store, file>>

\* Bot::start: the loop over the remaining tasks, left at the first error,
\* and the result of the first task after it
StartJoin ==
    /\ bot.start = "joining"
    /\ \E t \in Tasks \ bot.joined :
        /\ bot[t] = "done"
        /\ bot' = [bot EXCEPT
                     !.joined = @ \cup {t},
                     !.start = IF bot.results[t] = "err"
                                  \/ bot.joined \cup {t} = Tasks
                               THEN "returned" ELSE @,
                     !.result = IF bot.results[t] = "err" THEN "err"
                                ELSE IF bot.joined \cup {t} = Tasks
                                THEN bot.first ELSE @]
    /\ UNCHANGED <<tree, uid_index, call, store, file>>

\* the three tasks and Bot::start
NextBot ==
    \/ ManagerStart \/ AcquireWrite \/ Fetch \/ Skip \/ Reconcile
    \/ Persist \/ CycleReturn \/ Notify \/ TimerFires \/ ManagerStops
    \/ FrameworkEnds \/ FrameworkStops
    \/ WatcherStart \/ CtrlC \/ WatcherStops
    \/ StartFirst \/ StartJoin

\* the life cycle is followed from one file and one iteration order
InitStart == BotBuilt({Absent}, {<<"edt", "exams", "td">>})

SpecBot == InitStart /\ [][NextBot]_vars

\* the steps the tasks and Bot::start take by themselves; the timer, the
\* end of the framework and ctrl-c come from outside and may never come
TaskStep ==
    \/ StartFirst \/ StartJoin
    \/ FrameworkStops \/ WatcherStart \/ WatcherStops
    \/ ManagerStart \/ AcquireWrite \/ Fetch \/ Skip
    \/ CycleReturn \/ Notify \/ ManagerStops
    \/ Reconcile \/ Persist

\* a run never stops while one of those steps can be taken (the timer
\* fires a bounded number of times, so this is the fairness of every one
\* of them)
FairBot == WF_vars(TaskStep)

SpecBotFair == SpecBot /\ FairBot

\* ---------------------------------------------------------------------
\* Claims about the tasks
\* ---------------------------------------------------------------------

IsBot == bot.start # "none"

\* the complete states calendar n has had: at the two ends of every cycle
\* that is over, at the start of the running one, and now unless apply is
\* at work on it
Boundaries(n) ==
    {c.before : c \in Elements(bot.done_cycles)}
        \cup {c.after : c \in Elements(bot.done_cycles)}
        \cup (IF InCycle(bot) THEN {bot.cycle.before} ELSE {})
        \cup (IF bot.manager = "persisting" /\ Head(bot.cycle.todo) = n
              THEN {} ELSE {store.data})

\* C23: what a reader got from get_range under the read lock is, for each
\* calendar, the range of the calendar as it was before or as it is after a
\* reconciliation, never of a calendar between the two passes of an update
C23_ReadersSeeWholeUpdates ==
    IsBot =>
        \A r \in Readers :
            bot.seen[r].reading =>
                \A n \in DOMAIN bot.seen[r].ranges :
                    \E d \in Boundaries(n) :
                        /\ n \in DOMAIN d
                        /\ bot.seen[r].ranges[n] =
                              get_range(d[n], bot.seen[r].from,
                                        bot.seen[r].duration)

\* a reader holds the ranges of a calendar that the startup cycle changed,
\* while the timer cycle waits for the lock
C23_Witness ==
    /\ IsBot
    /\ bot.manager = "locking"
    /\ Len(bot.done_cycles) = 1
    /\ "edt" \in DOMAIN bot.done_cycles[1].before
    /\ bot.done_cycles[1].before["edt"] # bot.done_cycles[1].after["edt"]
    /\ \E r \in Readers :
        /\ bot.seen[r].reading
        /\ "edt" \in DOMAIN bot.seen[r].ranges
        /\ bot.seen[r].ranges["edt"] # <<>>

\* C24: while update_calendars runs the manager holds the write lock and no
\* reader holds the store; readers hold it together
C24_WriterExcludesReaders ==
    IsBot =>
        /\ InCycle(bot) => bot.writer
        /\ bot.writer => bot.readers = {}
        /\ bot.readers = {r \in Readers : bot.seen[r].reading}

\* both readers hold the store at once and the timer cycle waits for them
C24_Witness ==
    /\ IsBot
    /\ bot.readers = Readers
    /\ bot.manager = "locking"
    /\ bot.cycle.kind = "timer"
    /\ ~bot.writer

\* how many times name occurs in the sequence q
Count(q, name) == Cardinality({k \in DOMAIN q : q[k] = name})

\* a feed of cycle c whose fetch or parse failed
FailedFeed(c, n) == n \in DOMAIN c.fetched /\ ~c.fetched[n].ok

\* calendar n is the same at both ends of cycle c
Untouched(c, n) ==
    /\ n \in DOMAIN c.before <=> n \in DOMAIN c.after
    /\ n \in DOMAIN c.before => c.before[n] = c.after[n]

\* apply was not called for the failed feed n of cycle c, which left its
\* calendar alone and has no entry for it in the map
SkippedAlone(c, n) ==
    /\ Count(c.applied, n) = 0
    /\ Untouched(c, n)
    /\ n \notin DOMAIN c.calendars

C25_CycleNeverCancelled ==
    [][(IsBot /\ InCycle(bot)) =>
          \/ /\ bot'.manager \in {"fetching", "applying", "persisting"}
             /\ bot'.cycle.kind = bot.cycle.kind
          \/ Len(bot'.done_cycles) = Len(bot.done_cycles) + 1]_vars

\* the shutdown was sent while a cycle ran, the cycle went to its end and
\* the manager observed the shutdown after it
C25_Witness ==
    /\ IsBot
    /\ bot.manager = "done"
    /\ bot.results["manager"] = "ok"
    /\ \E c \in Elements(bot.done_cycles) : c.signalled /\ c.ok

\* between two cycles
Quiet(b) == b.manager \in {"sleeping", "locking", "done"}

\* C26: once a cycle is over and the manager waits for the next one, every
\* list of records that apply returned in the cycle has been handed to
\* process_events under the name of its calendar
C26_RecordsHanded ==
    (IsBot /\ Quiet(bot)) =>
        \A i \in DOMAIN bot.done_cycles :
            \A k \in DOMAIN bot.done_cycles[i].returned :
                \E h \in Elements(bot.handed) :
                    /\ h.cycle = i
                    /\ bot.done_cycles[i].returned[k].name
                          \in DOMAIN h.updates_map
                    /\ h.updates_map[bot.done_cycles[i].returned[k].name] =
                          bot.done_cycles[i].returned[k].updates

\* C27: a cycle that update_calendars ended with an error leaves
\* manager_task running
C27_ErrorKeepsLoop ==
    IsBot =>
        \A c \in Elements(bot.done_cycles) :
            ~c.ok => ~(bot.manager = "done" /\ bot.results["manager"] = "err")

\* C30: once a task has finished, Bot::start returns and every task ends
C30_AllTasksStop ==
    (IsBot /\ \E t \in Tasks : bot[t] = "done")
        ~> (bot.start = "returned" /\ \A t \in Tasks : bot[t] = "done")

\* C31: manager_task returns Ok only from the wait for the next cycle, with
\* the shutdown message received, and that step starts no cycle and hands
\* nothing to process_events; once returned it does nothing more
C31_StopsWithoutCycle ==
    [][IsBot =>
         /\ (bot.manager # "done" /\ bot'.manager = "done"
                /\ bot'.results["manager"] = "ok")
            => /\ bot.manager = "sleeping"
               /\ "manager" \in bot.pending
               /\ bot'.cycle = NoCycle
               /\ bot'.cycles = bot.cycles
               /\ bot'.done_cycles = bot.done_cycles
               /\ bot'.handed = bot.handed
         /\ bot.manager = "done"
            => /\ bot'.manager = "done"
               /\ bot'.done_cycles = bot.done_cycles
               /\ bot'.handed = bot.handed
               /\ store' = store]_vars

\* the manager returned Ok after the startup cycle, before any timer cycle,
\* and the other tasks went on after it
C31_Witness ==
    /\ IsBot
    /\ bot.manager = "done"
    /\ bot.results["manager"] = "ok"
    /\ bot.cycles = 0
    /\ Len(bot.done_cycles) = 1
    /\ bot.handed = <<>>
    /\ bot.start = "returned"

\* ---------------------------------------------------------------------
\* Claims about the errors and the sequences of calls
\* ---------------------------------------------------------------------

\* the two errors update returns when an identity-index entry is missing
DesyncErrors ==
    {"expected an event to be in the uid_index, but it wasn't present",
     "should happen. the key wasn't in the hashmap"}

\* C32: from the empty calendar, with a parseable time_amount and any lists
\* of events, no update returns an index-desynchronization error: every
\* event the deletion step takes from the chronological index has its uid
\* in the identity index
C32_NoDesyncError ==
    /\ IsUpdate => (call.ret.error \notin DesyncErrors /\ call.ret.ok)
    /\ \A s \in DOMAIN tree : tree[s].uid \in DOMAIN uid_index

\* a list that carries one uid twice is handed to a calendar from which the
\* same call removes an event
C32_Witness ==
    /\ ReturnedOk
    /\ \E i, j \in DOMAIN call.events :
          i # j /\ call.events[i].uid = call.events[j].uid
    /\ \E k \in DOMAIN call.ret.updates : call.ret.updates[k].kind = "Removed"

\* a record pushed by the first loop agrees with the identity index the
\* iteration found
MatchesIndex(r, index) ==
    /\ r.kind \in {"Created", "Updated"}
    /\ r.kind = "Created" => r.event.uid \notin DOMAIN index
    /\ r.kind = "Updated"
       => r.old.uid \in DOMAIN index /\ index[r.old.uid] = r.old

\* the Removed records of the last call are about distinct uids of the
\* identity index the deletion scan started from, and carry its versions
RemovedAreStored(index) ==
    \A k \in DOMAIN call.ret.updates :
        call.ret.updates[k].kind = "Removed"
        => /\ uid_of(call.ret.updates[k]) \in DOMAIN index
           /\ index[uid_of(call.ret.updates[k])] = call.ret.updates[k].event
           /\ \A l \in DOMAIN call.ret.updates :
                 (l # k /\ call.ret.updates[l].kind = "Removed")
                 => uid_of(call.ret.updates[l]) # uid_of(call.ret.updates[k])

\* the first loop of the last call is followed again from its i-th
\* iteration on, over the events its iterations handled, st holding the
\* indices that iteration starts from: what each iteration pushed is
\* compared with the identity index it found, and the Removed records with
\* the index the loop left
RECURSIVE RecordsFollow(_, _, _)
RecordsFollow(st, i, frontier) ==
    IF i > Len(call.ret.steps) THEN RemovedAreStored(st.uid_index)
    ELSE /\ \A r \in Elements(call.ret.steps[i].pushed) :
               MatchesIndex(r, st.uid_index)
         /\ RecordsFollow(reconcile_one(st, call.ret.steps[i].new, frontier),
                          i + 1, frontier)

\* the records of the last call agree with the identity index at the time
\* they were pushed
RecordsMatchIndex ==
    /\ Cardinality({k \in DOMAIN call.ret.updates :
                       call.ret.updates[k].kind # "Removed"})
          = Cardinality({k \in DOMAIN call.ret.steps :
                            call.ret.steps[k].pushed # <<>>})
    /\ call.ret.updates # <<>>
       => RecordsFollow([tree |-> call.before.tree,
                         uid_index |-> call.before.uid_index,
                         updates |-> <<>>, steps |-> <<>>],
                        1, existing_end(call.before.tree))

\* a uid announced by Created is in the identity index when the call
\* returns, unless the same call reported it Removed afterwards
CreatedIsStored ==
    \A k \in DOMAIN call.ret.updates :
        call.ret.updates[k].kind = "Created"
        => \/ uid_of(call.ret.updates[k]) \in DOMAIN uid_index
           \/ \E l \in DOMAIN call.ret.updates :
                 /\ l > k
                 /\ call.ret.updates[l].kind = "Removed"
                 /\ uid_of(call.ret.updates[l]) = uid_of(call.ret.updates[k])

\* a uid leaves the identity index only in a call that reports it Removed
LeavesOnlyRemoved ==
    \A u \in DOMAIN call.before.uid_index :
        u \notin DOMAIN uid_index
        => \E k \in DOMAIN call.ret.updates :
              /\ call.ret.updates[k].kind = "Removed"
              /\ uid_of(call.ret.updates[k]) = u

\* C33: over any sequence of updates on one calendar, Updated and Removed
\* are returned only for a uid that is in the identity index at that time and
\* carry the stored version as old, Created only for a uid that is not in
\* it; a uid announced by Created stays in the index until a call reports
\* it Removed, so two Created for one uid have a Removed between them
C33_RecordsFollowIndex ==
    IsUpdate => (RecordsMatchIndex /\ CreatedIsStored /\ LeavesOnlyRemoved)

\* a list carries one uid twice: on a calendar that holds other events the
\* call announces the uid by Created and then reports it Updated
C33_Witness ==
    /\ ReturnedOk
    /\ DOMAIN call.before.tree # {}
    /\ \E k, l \in DOMAIN call.ret.updates :
          /\ call.ret.updates[k].kind = "Created"
          /\ call.ret.updates[l].kind = "Updated"
          /\ uid_of(call.ret.updates[k]) = uid_of(call.ret.updates[l])

\* C34: a stored event whose start is in the deletion window and whose uid
\* is not in the fetched list, while a fetched event has its start, is not
\* reported Removed and is still in the identity index after the call
C34_SameStartShieldsDeletion ==
    ReturnedOk =>
        \A u \in DOMAIN call.before.uid_index :
            LET e == call.before.uid_index[u] IN
            ( /\ InWindow(e.start)
              /\ u \notin FetchedUids
              /\ e.start \in FetchedStarts )
            => /\ RecordsAbout(u, "Removed") = {}
               /\ u \in DOMAIN uid_index
               /\ uid_index[u] = e

\* such an event is still under its start in the chronological index when
\* the call begins, and the fetched event of that start is stored too
C34_Witness ==
    /\ ReturnedOk
    /\ \E u \in DOMAIN call.before.uid_index :
          LET e == call.before.uid_index[u] IN
          /\ InWindow(e.start)
          /\ u \notin FetchedUids
          /\ e.start \in FetchedStarts
          /\ e.start \in DOMAIN call.before.tree
          /\ call.before.tree[e.start] = e
          /\ u \in DOMAIN uid_index
          /\ Cardinality(DOMAIN uid_index) = 2

\* the last call was an apply that ran update under a time_amount that is
\* not a duration
ParseFailed ==
    /\ IsApply
    /\ call.ran_update
    /\ ~parse_duration(
           config.calendar.calendars[call.calendar].time_amount).ok

Unconfigured(data) == DOMAIN data \ DOMAIN config.calendar.calendars

\* C36: apply for a name that neither the store nor the configuration
\* knows returns an error, leaves the map with an empty calendar under the
\* name and the save path as it was; every apply that succeeds afterwards
\* writes that entry with the rest of the map
C36_UnknownNameEntered ==
    /\ ( /\ IsApply
         /\ call.calendar \notin DOMAIN config.calendar.calendars
         /\ call.calendar \notin DOMAIN call.before.data )
       => /\ ~call.ret.ok
          /\ store.data = insert(call.before.data, call.calendar, new)
          /\ file = call.before.file
    /\ (IsApply /\ call.ret.ok)
       => \A n \in Unconfigured(call.before.data) :
             /\ file.kind = "postcard"
             /\ n \in DOMAIN file.calendars
             /\ file.calendars[n] \in serialize(call.before.data[n])
             /\ call.before.data[n] = new

\* a successful apply of a configured calendar writes the entry of the
\* unknown name, which the save path did not hold before
C36_Witness ==
    /\ IsApply /\ call.ret.ok
    /\ call.calendar = "edt"
    /\ "ghost" \in DOMAIN call.before.data
    /\ call.before.file.kind = "postcard"
    /\ "ghost" \notin DOMAIN call.before.file.calendars
    /\ "ghost" \in DOMAIN file.calendars

\* the last call was an apply whose write of the save path failed
WriteFailed == IsApply /\ call.write \in {"refused", "truncated"}

\* the records update had computed in the last apply
Computed ==
    apply(call.before.data, call.calendar, call.events,
          call.fetch_time).updates

Applied(c, n) ==
    apply(c.before, n, c.fetched[n].events, c.fetched[n].fetch_date).data[n]

\* the names that come after the last applied one in the iteration order
After(c) ==
    {bot.order[k] : k \in {j \in DOMAIN bot.order :
        \E i \in DOMAIN bot.order :
            /\ bot.order[i] = c.applied[Len(c.applied)]
            /\ i < j}}

\* C38: in a cycle that update_calendars ends with an error, the last apply
\* is the failing one; the calendars applied before it are updated in
\* memory and in the save path, none of their records is handed on, and the
\* calendars that come after it are not applied
C38_FailedCycleKeepsEarlier ==
    IsBot =>
        \A i \in DOMAIN bot.done_cycles :
            LET c == bot.done_cycles[i] IN
            ~c.ok =>
                /\ c.applied # <<>>
                /\ Len(c.returned) = Len(c.applied) - 1
                /\ \A k \in DOMAIN c.returned :
                      LET n == c.returned[k].name IN
                      /\ n = c.applied[k]
                      /\ c.after[n] = Applied(c, n)
                      /\ file.kind = "postcard"
                      /\ n \in DOMAIN file.calendars
                      /\ file.calendars[n] \in serialize(c.after[n])
                /\ \A h \in Elements(bot.handed) : h.cycle # i
                /\ \A n \in After(c) :
                      /\ Count(c.applied, n) = 0
                      /\ Untouched(c, n)

\* C39: after an apply that succeeded, the store built again by Store::new
\* from the save path returns no record when the same events are applied
\* to the same calendar at the same fetch time
C39_RestartThenSameApplyIsSilent ==
    (IsApply /\ call.ret.ok) =>
        LET restarted == Store_new(file) IN
        /\ restarted.ok
        /\ apply(restarted.data, call.calendar, call.events,
                 call.fetch_time).updates = <<>>


====
